---- MODULE Spec2Model ----
(***************************************************************************)
(* Job lifecycle and escrow payment of the fundi-connect backend.          *)
(*                                                                         *)
(* One job document in the store, the payment provider, and a fixed pool   *)
(* of concurrent HTTP requests.  A handler runs synchronously between its  *)
(* awaits, so every handler is cut at its awaits: the findById that loads  *)
(* the in-memory document, each provider call, and each save().  save()    *)
(* sends only the paths the handler modified ($set / $push), guarded by    *)
(* the document version only when an array element was modified in place.  *)
(***************************************************************************)
EXTENDS Integers, Sequences, FiniteSets, TLC

(* ------------------------------ bounds ------------------------------- *)
NumRequests == 3
MaxProgress == 2
MaxPayouts == 2
MaxCharges == 1
MaxRetriedCharges == 2
MaxRefunds == 1
MaxOverlaps == 1
MaxJobOverlaps == 3
MaxCompletedJobs == 2
MaxRefused == 1
MaxUpdates == 2
MaxAmount == 1000
MaxFeePercentage == 20

(* ------------------------------ actors ------------------------------- *)
Owner == "C"
Fundis == {"A", "B"}
Callers == {Owner} \cup Fundis
NoFundi == "none"
Methods == {"mpesa", "cash"}
ProposedPrice == [f \in Callers |-> IF f = "A" THEN 1500 ELSE 1200]
NoActualPrice == {0}
ActualPrices == {0, 1400}
Requests == 1..NumRequests

VARIABLES job, exists, req, gateway, overlaps, completedJobs

vars == <<job, exists, req, gateway, overlaps, completedJobs>>

(* --------------------------- the job document ------------------------ *)
platformFeePercentage == 10

NewJob(method) ==
  [ customerId |-> Owner,
    fundiId |-> NoFundi,
    status |-> "posted",
    proposals |-> <<>>,
    agreedPrice |-> 0,
    actualPrice |-> 0,
    payment_method |-> method,
    payment_status |-> "pending",
    payment_escrowAmount |-> 0,
    payment_escrowReference |-> 0,
    payment_releaseAmount |-> 0,
    payment_releaseReference |-> "none",
    payment_transferStatus |-> "none",
    payment_transferFailureReason |-> "none",
    workProgress |-> <<>>,
    completion_customerApproved |-> FALSE,
    version |-> 0 ]

(* ------------------------- the payment service ----------------------- *)
(* Math.round of num / den for num >= 0: the nearest integer, a half going  *)
(* up.  The quotients that occur are far from the precision of a double.   *)
Truncate(num, den) == num \div den

Round(num, den) == (2 * num + den) \div (2 * den)

calculateFees(amount, feePercentage) ==
  LET platformFee == Round(amount * feePercentage, 100)
  IN  [ totalAmount |-> amount,
        platformFee |-> platformFee,
        fundiAmount |-> amount - platformFee,
        feePercentage |-> feePercentage ]

(* ------------------------------ save() ------------------------------- *)
(* What one save() sends: the modified scalar paths, the proposal statuses *)
(* modified in place, the pushed array elements, and the version it        *)
(* expects (where = -1: the update is not guarded by the version).         *)
NoUpdate ==
  [ set |-> <<>>, pstatus |-> <<>>, pushProposals |-> <<>>,
    pushProgress |-> <<>>, where |-> -1 ]

Modified(doc, assigned) ==
  [ f \in {g \in DOMAIN assigned : assigned[g] # doc[g]} |-> assigned[f] ]

versionWhere(doc, pstatus) ==
  IF DOMAIN pstatus # {} THEN doc.version ELSE -1

versionInc(update) ==
  IF Len(update.pushProposals) + Len(update.pushProgress) > 0 THEN 1 ELSE 0

VersionMatches(doc, update) ==
  update.where = -1 \/ update.where = doc.version

ApplyUpdate(doc, update) ==
  LET d == update.set @@ doc
  IN  [ d EXCEPT
          !.proposals =
             [ i \in 1..Len(doc.proposals) |->
                 IF i \in DOMAIN update.pstatus
                 THEN [doc.proposals[i] EXCEPT !.status = update.pstatus[i]]
                 ELSE doc.proposals[i] ] \o update.pushProposals,
          !.workProgress = doc.workProgress \o update.pushProgress,
          !.version = doc.version + versionInc(update) ]

(* ----------------------------- requests ------------------------------ *)
(* The fields of the in-memory document a handler still reads after its    *)
(* first await.                                                            *)
Loaded(doc, recipientCode) ==
  [ fundiId |-> doc.fundiId,
    agreedPrice |-> doc.agreedPrice,
    status |-> doc.status,
    payment_method |-> doc.payment_method,
    payment_status |-> doc.payment_status,
    payment_escrowAmount |-> doc.payment_escrowAmount,
    payment_escrowReference |-> doc.payment_escrowReference,
    payment_releaseAmount |-> doc.payment_releaseAmount,
    payment_releaseReference |-> doc.payment_releaseReference,
    completion_customerApproved |-> doc.completion_customerApproved,
    paystackRecipientCode |-> recipientCode ]

NotLoaded == Loaded(NewJob("mpesa"), FALSE)

Idle ==
  [ pc |-> "idle", op |-> "none", index |-> 0, saw |-> "none",
    update |-> NoUpdate, then |-> "respond", doc |-> NotLoaded, fundi |-> 0 ]

(* A handler either answers at once or goes on to its next await.          *)
Respond(code) == [answer |-> code, next |-> Idle]

Continue(q) == [answer |-> "none", next |-> q]

Saving(op, index, doc, update) ==
  [ Idle EXCEPT !.pc = "save", !.op = op, !.index = index,
                !.saw = doc.status, !.update = update ]

Calling(op, pc, doc) ==
  [ Idle EXCEPT !.pc = pc, !.op = op, !.saw = doc.status, !.doc = Loaded(doc, FALSE) ]

Free(r) == req[r].pc = "idle"

Alone(r) == \A q \in Requests \ {r} : Free(q)

(* A request takes the first free slot of the pool; it may begin while      *)
(* others are in flight as long as the budget of overlaps lasts.           *)
Handle(r, out) ==
  /\ Free(r)
  /\ \A q \in Requests : q < r => ~Free(q)
  /\ Alone(r) \/ overlaps > 0
  /\ req' = [req EXCEPT ![r] = out.next]
  /\ overlaps' = IF Alone(r) \/ out.next.pc = "idle" THEN overlaps ELSE overlaps - 1

(* The entries startJob and completeJob push, and those of addWorkProgress. *)
Updates(doc) ==
  {i \in 1..Len(doc.workProgress) : doc.workProgress[i].stage = "in_progress"}

PushRoom(doc) == Len(doc.workProgress) - Cardinality(Updates(doc)) < MaxProgress

UpdateRoom(doc) == Cardinality(Updates(doc)) < MaxUpdates

CountRoom == \A f \in Fundis : completedJobs[f] < MaxCompletedJobs

(* ------------------------- Job.controller.js ------------------------- *)
submitProposalUpdate(doc, caller) ==
  [ NoUpdate EXCEPT
      !.pushProposals =
         << [ fundiId |-> caller, proposedPrice |-> ProposedPrice[caller],
              status |-> "pending" ] >>,
      !.set = Modified(doc, [status |-> "applied"]) ]

submitProposalAnyStatus(doc, caller) ==
  IF ~exists THEN Respond("404")
  ELSE IF \E i \in 1..Len(doc.proposals) : doc.proposals[i].fundiId = caller
    THEN Respond("400")
  ELSE Continue(Saving("submitProposal", 0, doc, submitProposalUpdate(doc, caller)))

submitProposalHandler(doc, caller) ==
  IF ~exists THEN Respond("404")
  ELSE IF doc.status # "posted" THEN Respond("400")
  ELSE IF \E i \in 1..Len(doc.proposals) : doc.proposals[i].fundiId = caller
    THEN Respond("400")
  ELSE Continue(Saving("submitProposal", 0, doc, submitProposalUpdate(doc, caller)))

submitProposal(r) ==
  /\ \E caller \in Fundis : Handle(r, submitProposalHandler(job, caller))
  /\ UNCHANGED <<job, exists, gateway, completedJobs>>

acceptedStatuses(doc, index) ==
  LET target(i) == IF i = index THEN "accepted" ELSE "rejected"
  IN  [ i \in {k \in 1..Len(doc.proposals) : doc.proposals[k].status # target(k)}
          |-> target(i) ]

acceptProposalAssigned(doc, index) ==
  LET proposal == doc.proposals[index]
      base == [ fundiId |-> proposal.fundiId,
                agreedPrice |-> proposal.proposedPrice,
                status |-> "assigned" ]
  IN  IF doc.payment_method # "cash"
      THEN base @@ [ payment_status |-> "escrow",
                     payment_escrowAmount |-> proposal.proposedPrice ]
      ELSE base

acceptProposalUpdate(doc, index) ==
  LET pstatus == acceptedStatuses(doc, index)
  IN  [ NoUpdate EXCEPT
          !.pstatus = pstatus,
          !.set = Modified(doc, acceptProposalAssigned(doc, index)),
          !.where = versionWhere(doc, pstatus) ]

acceptProposalHandler(doc, caller, index) ==
  IF ~exists THEN Respond("404")
  ELSE IF doc.customerId # caller THEN Respond("403")
  ELSE IF index \notin 1..Len(doc.proposals) THEN Respond("404")
  ELSE Continue(Saving("acceptProposal", index, doc, acceptProposalUpdate(doc, index)))

acceptProposal(r) ==
  /\ \E caller \in Callers, index \in 1..(Cardinality(Fundis) + 1) :
       Handle(r, acceptProposalHandler(job, caller, index))
  /\ UNCHANGED <<job, exists, gateway, completedJobs>>

startJobUpdate(doc, caller) ==
  [ NoUpdate EXCEPT
      !.set = Modified(doc, [status |-> "in_progress"]),
      !.pushProgress = << [updateBy |-> caller, stage |-> "started"] >> ]

startJobAnyStatus(doc, caller) ==
  IF ~exists THEN Respond("404")
  ELSE IF doc.fundiId = NoFundi \/ doc.fundiId # caller THEN Respond("403")
  ELSE Continue(Saving("startJob", 0, doc, startJobUpdate(doc, caller)))

startJobHandler(doc, caller) ==
  IF ~exists THEN Respond("404")
  ELSE IF doc.fundiId = NoFundi \/ doc.fundiId # caller THEN Respond("403")
  ELSE IF doc.status # "assigned" THEN Respond("400")
  ELSE Continue(Saving("startJob", 0, doc, startJobUpdate(doc, caller)))

startJob(r) ==
  /\ PushRoom(job)
  /\ \E caller \in Callers : Handle(r, startJobHandler(job, caller))
  /\ UNCHANGED <<job, exists, gateway, completedJobs>>

addWorkProgressUpdate(caller) ==
  [ NoUpdate EXCEPT
      !.pushProgress = << [updateBy |-> caller, stage |-> "in_progress"] >> ]

addWorkProgressHandler(doc, caller) ==
  IF ~exists THEN Respond("404")
  ELSE IF doc.customerId # caller /\ (doc.fundiId = NoFundi \/ doc.fundiId # caller)
    THEN Respond("403")
  ELSE Continue(Saving("addWorkProgress", 0, doc, addWorkProgressUpdate(caller)))

addWorkProgress(r) ==
  /\ UpdateRoom(job)
  /\ \E caller \in Callers : Handle(r, addWorkProgressHandler(job, caller))
  /\ UNCHANGED <<job, exists, gateway, completedJobs>>

(* job.completion is assigned as a whole, so it is sent whatever it held;  *)
(* actualPrice is assigned only when the request carries one (0: none).    *)
completeJobAssigned(actualPrice) ==
  IF actualPrice # 0
  THEN [status |-> "completed", actualPrice |-> actualPrice]
  ELSE [status |-> "completed"]

completeJobUpdate(doc, caller, actualPrice) ==
  [ NoUpdate EXCEPT
      !.set = [completion_customerApproved |-> FALSE]
                @@ Modified(doc, completeJobAssigned(actualPrice)),
      !.pushProgress = << [updateBy |-> caller, stage |-> "completed"] >> ]

completeJobHandler(doc, caller, actualPrice) ==
  IF ~exists THEN Respond("404")
  ELSE IF doc.fundiId = NoFundi \/ doc.fundiId # caller THEN Respond("403")
  ELSE IF doc.status # "in_progress" THEN Respond("400")
  ELSE Continue(Saving("completeJob", 0, doc,
                       completeJobUpdate(doc, caller, actualPrice)))

(* prices: the actualPrice values the completeJob requests may carry.      *)
completeJob(r, prices) ==
  /\ PushRoom(job)
  /\ \E caller \in Callers, actualPrice \in prices :
       Handle(r, completeJobHandler(job, caller, actualPrice))
  /\ UNCHANGED <<job, exists, gateway, completedJobs>>

approveCompletionAssigned(doc) ==
  IF doc.payment_status = "escrow"
  THEN [completion_customerApproved |-> TRUE, payment_status |-> "released"]
  ELSE [completion_customerApproved |-> TRUE]

approveCompletionUpdate(doc) ==
  [NoUpdate EXCEPT !.set = Modified(doc, approveCompletionAssigned(doc))]

approveCompletionHandler(doc, caller) ==
  IF ~exists THEN Respond("404")
  ELSE IF doc.customerId # caller THEN Respond("403")
  ELSE IF doc.status # "completed" THEN Respond("400")
  ELSE Continue([ Saving("approveCompletion", 0, doc, approveCompletionUpdate(doc))
                    EXCEPT !.then = "increment", !.doc = Loaded(doc, FALSE) ])

approveCompletion(r) ==
  /\ CountRoom
  /\ \E caller \in Callers : Handle(r, approveCompletionHandler(job, caller))
  /\ UNCHANGED <<job, exists, gateway, completedJobs>>

(* ------------------------ services/payment.service ------------------- *)
(* approveAndReleaseJob: the part up to the first save.                    *)
approveAndReleaseJobHandler(doc, caller, recipientCode) ==
  IF ~exists THEN Respond("throw")
  ELSE IF doc.customerId # caller THEN Respond("throw")
  ELSE IF doc.status # "completed" THEN Respond("throw")
  ELSE IF doc.completion_customerApproved THEN Respond("throw")
  ELSE IF doc.payment_status = "released" THEN Respond("throw")
  ELSE Continue(
         [ Saving("approveAndReleaseJob", 0, doc,
                  [NoUpdate EXCEPT !.set = [completion_customerApproved |-> TRUE]])
             EXCEPT !.then = "release",
                    !.doc = [Loaded(doc, recipientCode)
                               EXCEPT !.completion_customerApproved = TRUE] ])

approveAndReleaseJob(r) ==
  /\ CountRoom
  /\ \E caller \in Callers, recipientCode \in BOOLEAN :
       Handle(r, approveAndReleaseJobHandler(job, caller, recipientCode))
  /\ UNCHANGED <<job, exists, gateway, completedJobs>>

cashReleaseUpdate(doc) ==
  [ NoUpdate EXCEPT
      !.set = Modified(doc, [ payment_status |-> "released",
                              payment_releaseAmount |-> doc.agreedPrice,
                              payment_releaseReference |-> "CASH",
                              completion_customerApproved |-> TRUE ]) ]

(* approveAndReleaseJob between its first save and its next await.         *)
afterApproved(q) ==
  IF q.doc.payment_method = "cash"
    THEN [q EXCEPT !.pc = "save", !.then = "respond",
                   !.update = cashReleaseUpdate(q.doc)]
  ELSE IF q.doc.payment_status # "escrow" THEN Idle
  ELSE IF ~q.doc.paystackRecipientCode
    THEN [q EXCEPT !.pc = "recipient", !.update = NoUpdate]
  ELSE [q EXCEPT !.pc = "payout", !.update = NoUpdate]

releaseUpdate(doc) ==
  LET fees == calculateFees(doc.payment_escrowAmount, platformFeePercentage)
  IN  [ NoUpdate EXCEPT
          !.set = Modified(doc, [ payment_status |-> "released",
                                  payment_releaseAmount |-> fees.fundiAmount,
                                  payment_releaseReference |-> "transfer",
                                  completion_customerApproved |-> TRUE ]) ]

(* ----------------------- Payment.controller.js ----------------------- *)
releaseFundsRejectsApproved(doc, caller, recipientCode) ==
  IF ~exists THEN Respond("404")
  ELSE IF doc.customerId # caller THEN Respond("403")
  ELSE IF doc.payment_status # "escrow" THEN Respond("400")
  ELSE IF doc.status # "completed" \/ doc.completion_customerApproved
    THEN Respond("400")
  ELSE IF doc.fundiId = NoFundi THEN Respond("500")
  ELSE IF ~recipientCode
    THEN Continue(Calling("releaseFunds", "recipient", doc))
  ELSE Continue(Calling("releaseFunds", "payout", doc))

releaseFundsHandler(doc, caller, recipientCode) ==
  IF ~exists THEN Respond("404")
  ELSE IF doc.customerId # caller THEN Respond("403")
  ELSE IF doc.payment_status # "escrow" THEN Respond("400")
  ELSE IF doc.status # "completed" \/ ~doc.completion_customerApproved
    THEN Respond("400")
  ELSE IF doc.fundiId = NoFundi THEN Respond("500")
  ELSE IF ~recipientCode
    THEN Continue(Calling("releaseFunds", "recipient", doc))
  ELSE Continue(Calling("releaseFunds", "payout", doc))

releaseFunds(r) ==
  /\ \E caller \in Callers, recipientCode \in BOOLEAN :
       Handle(r, releaseFundsHandler(job, caller, recipientCode))
  /\ UNCHANGED <<job, exists, gateway, completedJobs>>

refundUpdate(doc) ==
  [ NoUpdate EXCEPT
      !.set = Modified(doc, [ payment_status |-> "refunded",
                              status |-> "cancelled" ]) ]

refundPaymentHandler(doc, caller) ==
  IF ~exists THEN Respond("404")
  ELSE IF doc.payment_status # "escrow" THEN Respond("400")
  ELSE Continue(Calling("refundPayment", "refund", doc))

refundPayment(r) ==
  /\ \E caller \in Callers : Handle(r, refundPaymentHandler(job, caller))
  /\ UNCHANGED <<job, exists, gateway, completedJobs>>

initiateEscrowPaymentHandler(doc, caller) ==
  IF ~exists THEN Respond("404")
  ELSE IF doc.customerId # caller THEN Respond("403")
  ELSE IF doc.payment_status = "escrow" THEN Respond("400")
  ELSE IF doc.agreedPrice = 0 THEN Respond("400")
  ELSE Continue(Calling("initiateEscrowPayment", "charge", doc))

initiateEscrowPayment(r) ==
  /\ \E caller \in Callers : Handle(r, initiateEscrowPaymentHandler(job, caller))
  /\ UNCHANGED <<job, exists, gateway, completedJobs>>

initiateUpdate(doc, reference) ==
  [NoUpdate EXCEPT !.set = Modified(doc, [payment_escrowReference |-> reference])]

verifyEscrowPaymentHandler(doc) ==
  IF ~exists THEN Respond("404")
  ELSE IF doc.status # "pending_payment_escrow" THEN Respond("400")
  ELSE IF doc.payment_escrowReference = 0 THEN Respond("400")
  ELSE Continue(Calling("verifyEscrowPayment", "verify", doc))

verifyEscrowPayment(r) ==
  /\ Handle(r, verifyEscrowPaymentHandler(job))
  /\ UNCHANGED <<job, exists, gateway, completedJobs>>

(* The effect verifyEscrowPayment and the charge.success webhook share.    *)
escrowUpdate(doc, amount) ==
  [ NoUpdate EXCEPT
      !.set = Modified(doc, [ payment_status |-> "escrow",
                              payment_escrowAmount |-> amount,
                              status |-> "assigned" ]) ]

chargeSuccessHandler(doc, amount) ==
  IF exists /\ doc.payment_status # "escrow"
  THEN Continue(Saving("handleWebhook", 0, doc, escrowUpdate(doc, amount)))
  ELSE Respond("200")

(* The signature header is the HMAC of the body under a key; only the      *)
(* provider holds PAYSTACK_SECRET_KEY.                                     *)
PAYSTACK_SECRET_KEY == "secret"

Keys == {PAYSTACK_SECRET_KEY, "guess"}

ChargeEvents ==
  [ event : {"charge.success"}, amount : {ProposedPrice[f] : f \in Fundis} ]

(* transfer.success and transfer.failed carry the reference of a transfer, *)
(* this job's or another's, and the failure its reason.                    *)
TransferEvents ==
  [ event : {"transfer.success", "transfer.failed"},
    reference : {"transfer", "unknown"}, reason : {"declined"} ]

Events == ChargeEvents \cup TransferEvents

createHmac(key, body) == <<key, body>>

Signatures == {createHmac(key, body) : key \in Keys, body \in Events}

transferSuccessUpdate(doc) ==
  [NoUpdate EXCEPT !.set = Modified(doc, [payment_transferStatus |-> "success"])]

transferFailedReverts(doc, event) ==
  [ NoUpdate EXCEPT
      !.set = Modified(doc, [ payment_transferStatus |-> "failed",
                              payment_transferFailureReason |-> event.reason,
                              payment_status |-> "escrow" ]) ]

transferFailedUpdate(doc, event) ==
  [ NoUpdate EXCEPT
      !.set = Modified(doc, [ payment_transferStatus |-> "failed",
                              payment_transferFailureReason |-> event.reason ]) ]

(* Job.findOne({'payment.releaseReference': reference}), then the update.  *)
transferHandler(doc, event) ==
  IF ~exists \/ doc.payment_releaseReference # event.reference
    THEN Respond("200")
  ELSE IF event.event = "transfer.success"
    THEN Continue(Saving("handleWebhook", 0, doc, transferSuccessUpdate(doc)))
  ELSE Continue(Saving("handleWebhook", 0, doc, transferFailedUpdate(doc, event)))

eventHandler(doc, event) ==
  IF event.event = "charge.success"
  THEN chargeSuccessHandler(doc, event.amount)
  ELSE transferHandler(doc, event)

handleWebhookUnsigned(doc, event, signature) == eventHandler(doc, event)

handleWebhookHandler(doc, event, signature) ==
  IF createHmac(PAYSTACK_SECRET_KEY, event) # signature THEN Respond("401")
  ELSE eventHandler(doc, event)

(* The provider signs a charge.success event for a charge that was paid,   *)
(* and a transfer event for a transfer it was asked for; it may deliver    *)
(* the same event any number of times.                                     *)
ProviderSigned(event) ==
  IF event.event = "charge.success"
  THEN \E i \in 1..Len(gateway.charges) :
         gateway.charges[i].paid /\ gateway.charges[i].amount = event.amount
  ELSE event.reference = "transfer" => gateway.payouts > 0

(* Anyone can post to the webhook route; a body signed under the secret    *)
(* key is one the provider signed.  events: the events that are posted.    *)
handleWebhook(r, events) ==
  /\ \E event \in events, signature \in Signatures :
       /\ signature = createHmac(PAYSTACK_SECRET_KEY, event) => ProviderSigned(event)
       /\ Handle(r, handleWebhookHandler(job, event, signature))
  /\ UNCHANGED <<job, exists, gateway, completedJobs>>

deleteJobHandler(doc, caller) ==
  IF ~exists THEN Respond("404")
  ELSE IF doc.customerId # caller THEN Respond("403")
  ELSE IF doc.status \in {"assigned", "in_progress"}
    THEN Continue(Saving("deleteJob", 0, doc,
           [NoUpdate EXCEPT !.set = Modified(doc, [status |-> "cancelled"])]))
  ELSE Continue(Calling("deleteJob", "delete", doc))

deleteJob(r) ==
  /\ \E caller \in Callers : Handle(r, deleteJobHandler(job, caller))
  /\ UNCHANGED <<job, exists, gateway, completedJobs>>

DeleteOne(r) ==
  /\ req[r].pc = "delete"
  /\ exists' = FALSE
  /\ req' = [req EXCEPT ![r] = Idle]
  /\ UNCHANGED <<job, gateway, overlaps, completedJobs>>

(* ------------------------- the payment provider ---------------------- *)
(* createTransferRecipient: the provider accepts the number without the    *)
(* plus sign (format1), or else with it (format2), or neither.             *)
(* Phone numbers are sequences of characters.                              *)
Digits == {"0", "1", "2", "3", "4", "5", "6", "7", "8", "9"}

Local == <<"7", "1", "2", "3", "4", "5", "6", "7", "8">>

(* The contacts a fundi's profile may hold: the four accepted spellings of *)
(* one number, one with separators, and invalid ones.                      *)
Phones ==
  { <<"0">> \o Local,
    <<"2", "5", "4">> \o Local,
    <<"+", "2", "5", "4">> \o Local,
    Local,
    <<"0", "7", "1", "2", " ", "3", "4", "5", "-", "6", "7", "8">>,
    <<"0", "8">> \o SubSeq(Local, 2, 9),
    <<"0">> \o SubSeq(Local, 1, 8),
    <<"+", "2", "5", "5">> \o Local,
    SubSeq(Local, 2, 9),
    <<>> }

startsWith(s, prefix) ==
  Len(s) >= Len(prefix) /\ SubSeq(s, 1, Len(prefix)) = prefix

substring(s, from) == SubSeq(s, from + 1, Len(s))

IsSeparator(c) == c \in {" ", "-", "(", ")"}

IsSubscriber(s) ==
  Len(s) = 9 /\ s[1] \in {"1", "7"} /\ \A i \in 1..Len(s) : s[i] \in Digits

formatMpesaNumber(phoneNumber) ==
  LET stripped == SelectSeq(phoneNumber, LAMBDA c : ~IsSeparator(c))
      known == \/ startsWith(stripped, <<"+", "2", "5", "4">>)
               \/ startsWith(stripped, <<"2", "5", "4">>)
               \/ startsWith(stripped, <<"0">>)
               \/ IsSubscriber(stripped)
      cleaned == IF startsWith(stripped, <<"+", "2", "5", "4">>)
                   THEN substring(stripped, 1)
                 ELSE IF startsWith(stripped, <<"2", "5", "4">>) THEN stripped
                 ELSE IF startsWith(stripped, <<"0">>)
                   THEN <<"2", "5", "4">> \o substring(stripped, 1)
                 ELSE <<"2", "5", "4">> \o stripped
      invalid(error) ==
        [valid |-> FALSE, error |-> error, format1 |-> <<>>, format2 |-> <<>>]
  IN  IF phoneNumber = <<>> THEN invalid("Phone number is required")
      ELSE IF ~known THEN invalid("Invalid phone format")
      ELSE IF ~( /\ startsWith(cleaned, <<"2", "5", "4">>)
                 /\ IsSubscriber(substring(cleaned, 3)) )
        THEN invalid("Invalid M-PESA number")
      ELSE [ valid |-> TRUE, error |-> "none",
             format1 |-> cleaned, format2 |-> <<"+">> \o cleaned ]

(* bankDetails.mpesaNumber of the User schema: /^(\+254|0)[17]\d{8}$/.       *)
mpesaNumberMatch(s) ==
  \/ startsWith(s, <<"+", "2", "5", "4">>) /\ IsSubscriber(substring(s, 4))
  \/ startsWith(s, <<"0">>) /\ IsSubscriber(substring(s, 1))

(* approveAndReleaseJob stores the number the provider accepted on the     *)
(* fundi and saves the fundi: a number the schema does not admit fails the *)
(* validation of that save and the error leaves the handler.  releaseFunds *)
(* stores the recipient code only.                                         *)
storeRecipientFails(op, phoneNumber) ==
  op = "approveAndReleaseJob" /\ ~mpesaNumberMatch(phoneNumber)

(* What the provider answers to POST /transferrecipient for each format.   *)
Formats == {"format1", "format2"}

Reasons == {"Account number is invalid", "not activated"}

ProviderAnswers == [Formats -> {"accepted"} \cup Reasons]

(* getMpesaBankCode asks the provider for the bank list unless the code is *)
(* cached on the service.                                                  *)
getMpesaBankCode(cached) == IF cached THEN <<>> ELSE <<"bank">>

createTransferRecipientRetries(phoneNumber, cached, answers) ==
  LET lookup == getMpesaBankCode(cached)
      phoneResult == formatMpesaNumber(phoneNumber)
      failure(calls, error) ==
        [ calls |-> calls, success |-> FALSE, error |-> error,
          phoneNumber |-> <<>>, accepted |-> "rejected" ]
  IN  IF answers["format1"] = "accepted" /\ phoneResult.valid
        THEN [ calls |-> lookup \o <<"format1">>, success |-> TRUE,
               error |-> "none", phoneNumber |-> phoneResult.format1,
               accepted |-> "format1" ]
      ELSE IF answers["format2"] = "accepted" /\ phoneResult.valid
        THEN [ calls |-> lookup \o <<"format1", "format2">>, success |-> TRUE,
               error |-> "none", phoneNumber |-> phoneResult.format2,
               accepted |-> "format2" ]
      ELSE IF ~phoneResult.valid
        THEN failure(lookup \o <<"format1", "format2">>, phoneResult.error)
      ELSE failure(lookup \o <<"format1", "format2">>, answers["format2"])

(* calls: the requests made to the provider, in order.                     *)
createTransferRecipient(phoneNumber, cached, answers) ==
  LET lookup == getMpesaBankCode(cached)
      phoneResult == formatMpesaNumber(phoneNumber)
      failure(calls, error) ==
        [ calls |-> calls, success |-> FALSE, error |-> error,
          phoneNumber |-> <<>>, accepted |-> "rejected" ]
  IN  IF ~phoneResult.valid THEN failure(lookup, phoneResult.error)
      ELSE IF answers["format1"] = "accepted"
        THEN [ calls |-> lookup \o <<"format1">>, success |-> TRUE,
               error |-> "none", phoneNumber |-> phoneResult.format1,
               accepted |-> "format1" ]
      ELSE IF answers["format2"] = "accepted"
        THEN [ calls |-> lookup \o <<"format1", "format2">>, success |-> TRUE,
               error |-> "none", phoneNumber |-> phoneResult.format2,
               accepted |-> "format2" ]
      ELSE failure(lookup \o <<"format1", "format2">>, answers["format2"])

(* What createTransferRecipient can return, for every contact, cache and   *)
(* provider.                                                               *)
Recipients ==
  { createTransferRecipient(phoneNumber, cached, answers) :
      phoneNumber \in Phones, cached \in BOOLEAN, answers \in ProviderAnswers }

CreateRecipient(r) ==
  /\ req[r].pc = "recipient"
  /\ \E recipient \in Recipients :
       IF ~recipient.success \/ storeRecipientFails(req[r].op, recipient.phoneNumber)
       THEN req' = [req EXCEPT ![r] = Idle]
       ELSE req' = [req EXCEPT ![r].pc = "payout"]
  /\ UNCHANGED <<job, exists, gateway, overlaps, completedJobs>>

(* releaseFundsToFundi: the transfer is made, or the provider refuses it   *)
(* (refused counts the refusals, up to MaxRefused).                        *)
Payout(r) ==
  /\ req[r].pc = "payout"
  /\ \/ /\ gateway.payouts < MaxPayouts
        /\ gateway' = [gateway EXCEPT !.payouts = @ + 1]
        /\ req' = [req EXCEPT ![r].pc = "save",
                              ![r].then = IF req[r].op = "approveAndReleaseJob"
                                          THEN "increment" ELSE "respond",
                              ![r].update = releaseUpdate(req[r].doc)]
     \/ /\ req' = [req EXCEPT ![r] = Idle]
        /\ gateway' = [gateway EXCEPT !.refused =
                         IF @ < MaxRefused THEN @ + 1 ELSE @]
  /\ UNCHANGED <<job, exists, overlaps, completedJobs>>

Refund(r) ==
  /\ req[r].pc = "refund"
  /\ \/ /\ gateway.refunds < MaxRefunds
        /\ gateway' = [gateway EXCEPT !.refunds = @ + 1]
        /\ req' = [req EXCEPT ![r].pc = "save",
                              ![r].update = refundUpdate(req[r].doc)]
     \/ /\ req' = [req EXCEPT ![r] = Idle]
        /\ UNCHANGED gateway
  /\ UNCHANGED <<job, exists, overlaps, completedJobs>>

(* transaction/initialize and transaction/verify; the provider opens at    *)
(* most maxCharges transactions.                                           *)
Charge(r, maxCharges) ==
  /\ req[r].pc \in {"charge", "verify"}
  /\ \/ /\ req[r].pc = "charge"
        /\ Len(gateway.charges) < maxCharges
        /\ gateway' = [gateway EXCEPT !.charges =
                         Append(@, [amount |-> req[r].doc.agreedPrice, paid |-> FALSE])]
        /\ req' = [req EXCEPT ![r].pc = "save",
                     ![r].update = initiateUpdate(req[r].doc, Len(gateway.charges) + 1)]
     \/ /\ req[r].pc = "verify"
        /\ gateway.charges[req[r].doc.payment_escrowReference].paid
        /\ req' = [req EXCEPT ![r].pc = "save",
                     ![r].update = escrowUpdate(req[r].doc,
                        gateway.charges[req[r].doc.payment_escrowReference].amount)]
        /\ UNCHANGED gateway
     \/ /\ req' = [req EXCEPT ![r] = Idle]
        /\ UNCHANGED gateway
  /\ UNCHANGED <<job, exists, overlaps, completedJobs>>

CustomerPays ==
  /\ \E i \in 1..Len(gateway.charges) :
       /\ ~gateway.charges[i].paid
       /\ gateway' = [gateway EXCEPT !.charges[i].paid = TRUE]
  /\ UNCHANGED <<job, exists, req, overlaps, completedJobs>>

(* ------------------------- the fundi's profile ----------------------- *)
(* User.findById(job.fundiId) after the job was saved.                     *)
FindFundi(r) ==
  /\ req[r].pc = "fundi"
  /\ req' = IF req[r].doc.fundiId = NoFundi
            THEN [req EXCEPT ![r] = Idle]
            ELSE [req EXCEPT ![r].pc = "increment",
                             ![r].fundi = completedJobs[req[r].doc.fundiId]]
  /\ UNCHANGED <<job, exists, gateway, overlaps, completedJobs>>

(* completedJobs += 1 on the loaded profile, then save() of the new value. *)
incrementCompletedJobs(r) ==
  /\ req[r].pc = "increment"
  /\ completedJobs' = [completedJobs EXCEPT ![req[r].doc.fundiId] = req[r].fundi + 1]
  /\ req' = [req EXCEPT ![r] = Idle]
  /\ UNCHANGED <<job, exists, gateway, overlaps>>

(* ------------------------------- save -------------------------------- *)
SaveSucceeds(r) == exists /\ VersionMatches(job, req[r].update)

Saved(q) ==
  IF q.then = "release" THEN afterApproved(q)
  ELSE IF q.then = "increment" THEN [q EXCEPT !.pc = "fundi", !.update = NoUpdate]
  ELSE Idle

Save(r) ==
  /\ req[r].pc = "save"
  /\ \/ /\ SaveSucceeds(r)
        /\ job' = ApplyUpdate(job, req[r].update)
        /\ req' = [req EXCEPT ![r] = Saved(req[r])]
     \/ /\ req' = [req EXCEPT ![r] = Idle]
        /\ UNCHANGED job
  /\ UNCHANGED <<exists, gateway, overlaps, completedJobs>>

(* --------------------------- specification --------------------------- *)
Init ==
  /\ \E method \in Methods : job = NewJob(method)
  /\ exists = TRUE
  /\ req = [r \in Requests |-> Idle]
  /\ gateway = [charges |-> <<>>, payouts |-> 0, refunds |-> 0, refused |-> 0]
  /\ overlaps = MaxOverlaps
  /\ completedJobs = [f \in Fundis |-> 0]

(* Every route but addWorkProgress, with completeJob requests that carry   *)
(* no actualPrice: neither is read by any other handler.  SpecWork has     *)
(* both.                                                                   *)
Next ==
  \/ \E r \in Requests :
       \/ submitProposal(r)
       \/ acceptProposal(r)
       \/ startJob(r)
       \/ completeJob(r, NoActualPrice)
       \/ approveCompletion(r)
       \/ approveAndReleaseJob(r)
       \/ releaseFunds(r)
       \/ refundPayment(r)
       \/ initiateEscrowPayment(r)
       \/ verifyEscrowPayment(r)
       \/ handleWebhook(r, ChargeEvents)
       \/ deleteJob(r)
       \/ DeleteOne(r)
       \/ CreateRecipient(r)
       \/ Payout(r)
       \/ Refund(r)
       \/ Charge(r, MaxCharges)
       \/ FindFundi(r)
       \/ incrementCompletedJobs(r)
       \/ Save(r)
  \/ CustomerPays

Spec == Init /\ [][Next]_vars

(* An assigned job not paid in cash, accepted for fundi A at 1500, from the *)
(* start of the work to the release of the payment: progress updates and   *)
(* completeJob requests that carry an actualPrice.                         *)
AssignedJob ==
  [ NewJob("mpesa") EXCEPT
      !.status = "assigned",
      !.fundiId = "A",
      !.proposals = << [ fundiId |-> "A", proposedPrice |-> ProposedPrice["A"],
                         status |-> "accepted" ] >>,
      !.agreedPrice = ProposedPrice["A"],
      !.payment_status = "escrow",
      !.payment_escrowAmount = ProposedPrice["A"],
      !.version = 1 ]

InitWork ==
  /\ job = AssignedJob
  /\ exists = TRUE
  /\ req = [r \in Requests |-> Idle]
  /\ gateway = [charges |-> <<>>, payouts |-> 0, refunds |-> 0, refused |-> 0]
  /\ overlaps = MaxOverlaps
  /\ completedJobs = [f \in Fundis |-> 0]

NextWork ==
  \E r \in Requests :
    \/ startJob(r)
    \/ addWorkProgress(r)
    \/ completeJob(r, ActualPrices)
    \/ approveAndReleaseJob(r)
    \/ CreateRecipient(r)
    \/ Payout(r)
    \/ FindFundi(r)
    \/ incrementCompletedJobs(r)
    \/ Save(r)

SpecWork == InitWork /\ [][NextWork]_vars

(* A completed job awaiting the owner's approval, accepted for fundi A at   *)
(* any price up to MaxAmount and holding that amount in escrow: the        *)
(* requests that compute the fee split and release the payment.            *)
CompletedJob(amount) ==
  [ AssignedJob EXCEPT
      !.status = "completed",
      !.proposals = << [ fundiId |-> "A", proposedPrice |-> amount,
                         status |-> "accepted" ] >>,
      !.agreedPrice = amount,
      !.payment_escrowAmount = amount,
      !.workProgress = << [updateBy |-> "A", stage |-> "started"],
                          [updateBy |-> "A", stage |-> "completed"] >>,
      !.version = 3 ]

InitFees ==
  /\ \E amount \in 0..MaxAmount : job = CompletedJob(amount)
  /\ exists = TRUE
  /\ req = [r \in Requests |-> Idle]
  /\ gateway = [charges |-> <<>>, payouts |-> 0, refunds |-> 0, refused |-> 0]
  /\ overlaps = 0
  /\ completedJobs = [f \in Fundis |-> 0]

NextFees ==
  \E r \in Requests :
    \/ approveAndReleaseJob(r)
    \/ releaseFunds(r)
    \/ CreateRecipient(r)
    \/ Payout(r)
    \/ FindFundi(r)
    \/ incrementCompletedJobs(r)
    \/ Save(r)

SpecFees == InitFees /\ [][NextFees]_vars

(* The way into escrow, the requests run one after the other: proposals,   *)
(* acceptance, the charge and its confirmation, the refund; the provider   *)
(* opens up to MaxRetriedCharges transactions.                             *)
InitPay ==
  /\ \E method \in Methods : job = NewJob(method)
  /\ exists = TRUE
  /\ req = [r \in Requests |-> Idle]
  /\ gateway = [charges |-> <<>>, payouts |-> 0, refunds |-> 0, refused |-> 0]
  /\ overlaps = 0
  /\ completedJobs = [f \in Fundis |-> 0]

NextPay ==
  \/ \E r \in Requests :
       \/ submitProposal(r)
       \/ acceptProposal(r)
       \/ initiateEscrowPayment(r)
       \/ verifyEscrowPayment(r)
       \/ handleWebhook(r, ChargeEvents)
       \/ refundPayment(r)
       \/ Refund(r)
       \/ Charge(r, MaxRetriedCharges)
       \/ Save(r)
  \/ CustomerPays

SpecPay == InitPay /\ [][NextPay]_vars

(* A completed job holding A's price in escrow: its release and the        *)
(* transfer events the provider posts afterwards.                          *)
InitTransfers ==
  /\ job = CompletedJob(ProposedPrice["A"])
  /\ exists = TRUE
  /\ req = [r \in Requests |-> Idle]
  /\ gateway = [charges |-> <<>>, payouts |-> 0, refunds |-> 0, refused |-> 0]
  /\ overlaps = MaxOverlaps
  /\ completedJobs = [f \in Fundis |-> 0]

NextTransfers ==
  \E r \in Requests :
    \/ approveAndReleaseJob(r)
    \/ releaseFunds(r)
    \/ CreateRecipient(r)
    \/ Payout(r)
    \/ handleWebhook(r, TransferEvents)
    \/ FindFundi(r)
    \/ incrementCompletedJobs(r)
    \/ Save(r)

SpecTransfers == InitTransfers /\ [][NextTransfers]_vars

(* Every route of Spec, the requests run strictly one after the other.     *)
InitSerial ==
  /\ \E method \in Methods : job = NewJob(method)
  /\ exists = TRUE
  /\ req = [r \in Requests |-> Idle]
  /\ gateway = [charges |-> <<>>, payouts |-> 0, refunds |-> 0, refused |-> 0]
  /\ overlaps = 0
  /\ completedJobs = [f \in Fundis |-> 0]

SpecSerial == InitSerial /\ [][Next]_vars

(* The routes of Job.controller.js alone, with more overlapping requests.  *)
InitJobs ==
  /\ \E method \in Methods : job = NewJob(method)
  /\ exists = TRUE
  /\ req = [r \in Requests |-> Idle]
  /\ gateway = [charges |-> <<>>, payouts |-> 0, refunds |-> 0, refused |-> 0]
  /\ overlaps = MaxJobOverlaps
  /\ completedJobs = [f \in Fundis |-> 0]

NextJobs ==
  \E r \in Requests :
    \/ submitProposal(r)
    \/ acceptProposal(r)
    \/ startJob(r)
    \/ completeJob(r, NoActualPrice)
    \/ approveCompletion(r)
    \/ deleteJob(r)
    \/ DeleteOne(r)
    \/ FindFundi(r)
    \/ incrementCompletedJobs(r)
    \/ Save(r)

SpecJobs == InitJobs /\ [][NextJobs]_vars

(* ------------------------------ properties --------------------------- *)
(* A request holds the answer of a successful transfer and is about to     *)
(* record it.                                                              *)
HasPaid(r) ==
  /\ req[r].pc = "save"
  /\ \/ req[r].op = "approveAndReleaseJob" /\ req[r].then = "increment"
     \/ req[r].op = "releaseFunds"

(* The save of request r succeeds in this step.                            *)
SavedBy(r) ==
  /\ req[r].pc = "save"
  /\ SaveSucceeds(r)
  /\ job' = ApplyUpdate(job, req[r].update)
  /\ req'[r] = Saved(req[r])

ChargeConfirmed == \E i \in 1..Len(gateway.charges) : gateway.charges[i].paid

Accepted(doc) == {i \in 1..Len(doc.proposals) : doc.proposals[i].status = "accepted"}

(* C1: over any sequence of operations the provider makes at most one      *)
(* successful payout for the job.                                          *)
PayoutAtMostOnce == gateway.payouts <= 1

(* C2: of two approvals of the same completed job in escrow that run at    *)
(* the same time, at most one gets a transfer out of the provider.         *)
ConcurrentApprovalsPayOnce ==
  \A r, q \in Requests :
    (r # q /\ req[r].op = "approveAndReleaseJob" /\ req[q].op = "approveAndReleaseJob")
      => ~(HasPaid(r) /\ HasPaid(q))

(* C3: once the provider has paid and the write of released was lost, a    *)
(* later request running on its own is never taken as far as the payout    *)
(* call again.                                                             *)
RetryNeverPaysAgain ==
  \A r \in Requests :
    (Alone(r) /\ req[r].pc = "payout" /\ job.payment_status = "escrow")
      => gateway.payouts = 0

(* C4: a stored payment that is released belongs to a completion the owner *)
(* has approved.                                                           *)
ReleasedImpliesApproved ==
  job.payment_status = "released" => job.completion_customerApproved

(* C5: a job that is not paid in cash holds escrow, and is assigned with   *)
(* it, only once the provider has confirmed a charge.                      *)
EscrowOnlyAfterCharge ==
  (job.payment_method # "cash" /\ job.payment_status = "escrow") => ChargeConfirmed

(* C6: a payment in escrow or released belongs to a job that is assigned,  *)
(* in progress, completed or cancelled.                                    *)
EscrowImpliesAssigned ==
  job.payment_status \in {"escrow", "released"}
    => job.status \in {"assigned", "in_progress", "completed", "cancelled"}

(* C7: a successful acceptProposal on an applied job marks the proposal    *)
(* accepted, takes fundiId and agreedPrice from it, and leaves a cash job  *)
(* assigned and any other job in pending_payment_escrow with its payment   *)
(* still pending.                                                          *)
AcceptAdvancesByMethod ==
  [][ \A r \in Requests :
        (req[r].op = "acceptProposal" /\ req[r].saw = "applied" /\ SavedBy(r))
          => /\ job'.proposals[req[r].index].status = "accepted"
             /\ job'.fundiId = job.proposals[req[r].index].fundiId
             /\ job'.agreedPrice = job.proposals[req[r].index].proposedPrice
             /\ IF job.payment_method = "cash"
                THEN job'.status = "assigned"
                ELSE /\ job'.status = "pending_payment_escrow"
                     /\ job'.payment_status = "pending" ]_vars

(* C8: an acceptProposal that found the job in a status other than applied *)
(* changes nothing of the stored job.                                      *)
AcceptNeedsApplied ==
  [][ \A r \in Requests :
        (req[r].op = "acceptProposal" /\ req[r].saw # "applied" /\ SavedBy(r))
          => job' = job ]_vars

(* C9: at most one proposal of the job is accepted, whatever acceptances   *)
(* have succeeded.                                                         *)
AtMostOneAccepted == Cardinality(Accepted(job)) <= 1

(* C10: of two acceptProposal calls for different proposals that both read *)
(* the applied job, the one that saves after the other has won changes     *)
(* nothing of the stored job.                                              *)
AcceptLoserFails ==
  [][ \A r \in Requests :
        ( /\ req[r].op = "acceptProposal" /\ req[r].saw = "applied"
          /\ job.status # "applied"
          /\ Accepted(job) # {} /\ req[r].index \notin Accepted(job)
          /\ SavedBy(r) )
          => job' = job ]_vars

(* No request has begun while another was in flight.                      *)
Sequential == overlaps = MaxOverlaps

(* C11: with the requests run one after the other, an approveCompletion    *)
(* that found the completion already approved, no escrow left to release   *)
(* and the approval already counted on the fundi's profile leaves the      *)
(* completedJobs counter as the first approval left it.                    *)
SecondApprovalCountsNothing ==
  [][ \A r \in Requests :
        ( /\ Sequential
          /\ req[r].op = "approveCompletion" /\ req[r].pc = "increment"
          /\ req[r].doc.completion_customerApproved
          /\ req[r].doc.payment_status # "escrow"
          /\ req[r].fundi >= 1
          /\ req'[r].pc = "idle" )
          => completedJobs' = completedJobs ]_vars

(* C12: with the requests run one after the other, a charge.success event  *)
(* handled for a job whose payment is already in escrow, released or       *)
(* refunded changes neither payment.status nor the job's status.           *)
DuplicateChargeEventIsNoOp ==
  [][ \A r \in Requests :
        ( /\ Sequential
          /\ req[r].op = "handleWebhook"
          /\ job.payment_status \in {"escrow", "released", "refunded"}
          /\ SavedBy(r) )
          => /\ job'.payment_status = job.payment_status
             /\ job'.status = job.status ]_vars

(* C13: a webhook request whose signature is not the HMAC of its body      *)
(* under the secret key is answered 401 and the handler goes no further:   *)
(* it loads no job and saves nothing.                                      *)
ForgedWebhookRejected ==
  \A event \in Events, signature \in Signatures :
    signature # createHmac(PAYSTACK_SECRET_KEY, event)
      => handleWebhookHandler(job, event, signature) = Respond("401")

(* A forged charge.success is refused on a refunded job that the same      *)
(* event, had it been let through, would have put back in escrow.          *)
ForgedWebhookWitness ==
  /\ exists /\ job.payment_status = "refunded"
  /\ \E event \in Events :
       /\ handleWebhookHandler(job, event, createHmac("guess", event)).answer = "401"
       /\ chargeSuccessHandler(job, event.amount).next.pc = "save"

(* C14: no stored job is cancelled while its payment is still held in      *)
(* escrow.                                                                 *)
CancelledNeverHoldsEscrow ==
  ~(job.status = "cancelled" /\ job.payment_status = "escrow")

(* C15: a stored payment that is refunded belongs to a cancelled job.      *)
RefundedImpliesCancelled ==
  job.payment_status = "refunded" => job.status = "cancelled"

(* C16: a refund request of a caller who is not the owner of the job is    *)
(* answered with an error and goes no further: no provider refund, nothing *)
(* saved.                                                                  *)
OnlyOwnerRefunds ==
  \A caller \in Callers \ {Owner} :
    refundPaymentHandler(job, caller).next = Idle

(* C17: on a job found completed neither refundPayment nor deleteJob gets  *)
(* past its checks.                                                        *)
CompletedJobNotCancellable ==
  [][ \A r \in Requests :
        (Free(r) /\ exists /\ job.status = "completed")
          => req'[r].op \notin {"refundPayment", "deleteJob"} ]_vars

(* C18: the job document is removed from the store only by a deleteJob     *)
(* that found the job posted.                                              *)
OnlyPostedJobDeleted ==
  [][ (exists /\ ~exists')
        => \A r \in Requests :
             (req[r].pc = "delete" /\ req'[r].pc = "idle") => req[r].saw = "posted" ]_vars

(* The edges of the lifecycle; the direct edge from applied to assigned is *)
(* taken as allowed whatever the payment method.                           *)
LifecycleEdges ==
  { <<"posted", "applied">>, <<"applied", "pending_payment_escrow">>,
    <<"pending_payment_escrow", "assigned">>, <<"applied", "assigned">>,
    <<"assigned", "in_progress">>, <<"in_progress", "completed">> }
  \cup { <<s, "cancelled">> : s \in {"posted", "applied", "pending_payment_escrow",
                                     "assigned", "in_progress"} }

(* C19: with the requests run one after the other, every change of the     *)
(* stored status follows an edge of the lifecycle.                         *)
StatusFollowsLifecycle ==
  [][ (Sequential /\ job'.status # job.status)
        => <<job.status, job'.status>> \in LifecycleEdges ]_vars

(* The transfer of request r is refused by the provider in this step.      *)
PayoutRefused(r) ==
  /\ req[r].pc = "payout"
  /\ req'[r].pc = "idle"
  /\ gateway'.payouts = gateway.payouts

(* C20: a payout refused during approveAndReleaseJob ends the request and  *)
(* writes nothing; with the requests run one after the other the stored    *)
(* job is then approved with its payment in escrow; such a job always      *)
(* passes the checks of releaseFunds by the owner, and a releaseFunds      *)
(* whose transfer succeeded and whose save succeeds stores released.       *)
RefusedPayoutStaysRetryable ==
  [][ \A r \in Requests :
        /\ (req[r].op = "approveAndReleaseJob" /\ PayoutRefused(r))
             => /\ job' = job
                /\ Sequential
                     => /\ job.payment_status = "escrow"
                        /\ job.completion_customerApproved
        /\ ( /\ exists /\ job.status = "completed"
             /\ job.completion_customerApproved /\ job.payment_status = "escrow" )
             => \A recipientCode \in BOOLEAN :
                  releaseFundsHandler(job, Owner, recipientCode).next.pc
                    \in {"recipient", "payout"}
        /\ (req[r].op = "releaseFunds" /\ HasPaid(r) /\ SavedBy(r))
             => job'.payment_status = "released" ]_vars

(* After a refused payout, and no other transfer, a releaseFunds retry has *)
(* stored the payment as released.                                         *)
RetriedPayoutReleased ==
  /\ Sequential
  /\ gateway.refused = 1 /\ gateway.payouts = 1
  /\ job.payment_status = "released" /\ job.payment_releaseReference = "transfer"
  /\ job.completion_customerApproved
  /\ \A f \in Fundis : completedJobs[f] = 0
  /\ \A r \in Requests : Free(r)

(* C21: for a job paid in cash the provider is never asked for a charge    *)
(* nor for a payout.                                                       *)
CashNeverCallsGateway ==
  job.payment_method = "cash"
    => Len(gateway.charges) = 0 /\ gateway.payouts = 0

(* C22: when the owner's acceptance of fundi A's proposal (price 1500) on   *)
(* an applied job not paid in cash is saved, the job waits in              *)
(* pending_payment_escrow for the provider's verification: its payment is  *)
(* not yet in escrow and it is not yet assigned.                           *)
AcceptWaitsForVerification ==
  [][ \A r \in Requests :
        ( /\ req[r].op = "acceptProposal" /\ req[r].saw = "applied"
          /\ job.payment_method # "cash"
          /\ SavedBy(r)
          /\ job.proposals[req[r].index].fundiId = "A" )
          => /\ job'.status = "pending_payment_escrow"
             /\ job'.payment_status # "escrow"
             /\ job'.fundiId = "A" /\ job'.agreedPrice = 1500 ]_vars

(* C23: with the requests run one after the other, for a job that received *)
(* two progress updates and was completed with actualPrice = 1400, the     *)
(* approval whose transfer succeeded stores the payment as released with   *)
(* releaseAmount 1260, the actual price less the platform fee.             *)
ActualPricePaidOut ==
  [][ \A r \in Requests :
        ( /\ Sequential
          /\ req[r].op = "approveAndReleaseJob" /\ HasPaid(r) /\ SavedBy(r)
          /\ job.actualPrice = 1400
          /\ Cardinality(Updates(job)) = 2 )
          => /\ job'.payment_status = "released"
             /\ job'.payment_releaseAmount
                  = calculateFees(job.actualPrice, platformFeePercentage).fundiAmount
             /\ job'.payment_releaseAmount = 1260 ]_vars

(* C24: calculateFees returns as platformFee the integer nearest to        *)
(* amount * feePercentage / 100, a half going up, and as fundiAmount the   *)
(* rest of the amount, so the two add up to the amount, for the amount the *)
(* job holds in escrow and every fee percentage; (1000, 10) gives 100 and  *)
(* 900, (999, 10) gives 100 and 899, and 5, 15 and 995 at 10% give the     *)
(* fees 1, 2 and 100; a release by transfer stores the fundiAmount of the  *)
(* escrow amount, whichever request computed it.                           *)
FeeSplitExact ==
  /\ \A feePercentage \in 0..MaxFeePercentage :
       LET amount == job.payment_escrowAmount
           fees == calculateFees(amount, feePercentage)
       IN  /\ 200 * fees.platformFee <= 2 * amount * feePercentage + 100
           /\ 2 * amount * feePercentage + 100 < 200 * fees.platformFee + 200
           /\ fees.fundiAmount = amount - fees.platformFee
           /\ fees.platformFee + fees.fundiAmount = amount
           /\ fees.totalAmount = amount
  /\ calculateFees(1000, 10).platformFee = 100
  /\ calculateFees(1000, 10).fundiAmount = 900
  /\ calculateFees(999, 10).platformFee = 100
  /\ calculateFees(999, 10).fundiAmount = 899
  /\ calculateFees(5, 10).platformFee = 1
  /\ calculateFees(15, 10).platformFee = 2
  /\ calculateFees(995, 10).platformFee = 100
  /\ job.payment_releaseReference = "transfer"
       => job.payment_releaseAmount
            = calculateFees(job.payment_escrowAmount, platformFeePercentage).fundiAmount

(* 999 held in escrow was released as 899 after a fee of 100.              *)
FeeSplitWitness ==
  /\ job.payment_status = "released"
  /\ job.payment_escrowAmount = 999
  /\ job.payment_releaseAmount = 899
  /\ gateway.payouts = 1

(* C25: with the requests run one after the other and none in flight, the  *)
(* fundi of a completed job whose completion is approved and whose payment *)
(* is released has been counted exactly one completed job.                 *)
ApprovedJobCountedOnce ==
  ( /\ Sequential
    /\ \A r \in Requests : Free(r)
    /\ exists /\ job.status = "completed"
    /\ job.completion_customerApproved
    /\ job.payment_status = "released" )
    => completedJobs[job.fundiId] = 1

(* The charges the customer has paid.                                      *)
Collected == {i \in 1..Len(gateway.charges) : gateway.charges[i].paid}

(* C26: over any sequence of initiate, verify and webhook operations the   *)
(* customer pays at most one charge for the job.                           *)
ChargedAtMostOnce == Cardinality(Collected) <= 1

(* C27: a submitProposal, startJob or completeJob whose status             *)
(* precondition was invalidated by another request between its read and    *)
(* its save does not overwrite the other's update: its save changes        *)
(* nothing of the stored job.                                              *)
StaleSaveConflicts ==
  [][ \A r \in Requests :
        ( /\ req[r].op \in {"submitProposal", "startJob", "completeJob"}
          /\ req[r].saw # job.status
          /\ SavedBy(r) )
          => job' = job ]_vars

(* C28: a request that ends with an error because a precondition does not *)
(* hold has stored nothing: the save of an approveAndReleaseJob that then  *)
(* finds the payment of its job, not paid in cash, out of escrow and       *)
(* throws changes nothing of the stored job.                               *)
FailedCallStoresNothing ==
  [][ \A r \in Requests :
        ( /\ req[r].op = "approveAndReleaseJob" /\ req[r].then = "release"
          /\ req[r].doc.payment_method # "cash"
          /\ req[r].doc.payment_status # "escrow"
          /\ SavedBy(r) )
          => job' = job ]_vars

(* C29: the job holds at most one proposal of each fundi.                  *)
OneProposalPerFundi ==
  \A i, j \in 1..Len(job.proposals) :
    job.proposals[i].fundiId = job.proposals[j].fundiId => i = j

(* C30: a submitProposal of the job's owner, a user who is customer and    *)
(* fundi at once, is answered with an error and goes no further; no        *)
(* proposal of the job is the owner's and the job is never assigned to its *)
(* owner.                                                                  *)
OwnerNeverProposes ==
  /\ submitProposalHandler(job, Owner).next = Idle
  /\ \A i \in 1..Len(job.proposals) : job.proposals[i].fundiId # job.customerId
  /\ job.fundiId # job.customerId

(* The progress log the store holds for the job.                           *)
StoredLog == IF exists THEN job.workProgress ELSE <<>>

(* C31: every step leaves the entries of the stored progress log in place: *)
(* the log before the step is a prefix of the log after it.                *)
ProgressLogAppendOnly ==
  [][ /\ Len(StoredLog) <= Len(StoredLog')
      /\ SubSeq(StoredLog', 1, Len(StoredLog)) = StoredLog ]_vars

(* C32: once the stored completion is approved no step sets it back, and   *)
(* no approval that found it approved is saved as a second approval.       *)
ApprovedExactlyOnce ==
  [][ /\ job.completion_customerApproved => job'.completion_customerApproved
      /\ \A r \in Requests :
           ( /\ req[r].op = "approveCompletion"
             /\ req[r].doc.completion_customerApproved )
             => ~SavedBy(r) ]_vars

(* The save of request q records a failed transfer.                        *)
RecordsFailure(q) ==
  /\ q.op = "handleWebhook"
  /\ "payment_transferStatus" \in DOMAIN q.update.set
  /\ q.update.set.payment_transferStatus = "failed"

(* C33: a signed transfer.failed event goes as far as a save only for the  *)
(* stored job whose release reference it carries, and that save records    *)
(* transferStatus = failed with the failure reason and changes nothing     *)
(* else of the job: payment.status, released, and the job's status stay.   *)
TransferFailureRecorded ==
  [][ /\ \A event \in TransferEvents :
           ( /\ event.event = "transfer.failed"
             /\ ~exists \/ job.payment_releaseReference # event.reference )
             => handleWebhookHandler(job, event,
                  createHmac(PAYSTACK_SECRET_KEY, event)).next = Idle
      /\ \A r \in Requests :
           (RecordsFailure(req[r]) /\ SavedBy(r))
             => /\ job'.payment_transferStatus = "failed"
                /\ job'.payment_transferFailureReason = "declined"
                /\ job'.payment_status = job.payment_status
                /\ job'.status = job.status
                /\ job' = [ job EXCEPT
                              !.payment_transferStatus = "failed",
                              !.payment_transferFailureReason = "declined" ] ]_vars

(* The failure of the transfer of a released payment has been recorded.    *)
TransferFailureWitness ==
  /\ job.payment_transferStatus = "failed"
  /\ job.payment_transferFailureReason = "declined"
  /\ job.payment_status = "released"
  /\ job.payment_releaseReference = "transfer"
  /\ job.status = "completed"

(* C34: startJob goes on to its save only for a stored job whose assigned  *)
(* fundi is the caller and whose status, as the handler read it, is        *)
(* assigned; every other call is answered at once and stores nothing.  Its *)
(* save sets status = in_progress, appends exactly one entry, "started" by *)
(* that fundi, to workProgress, and changes nothing else but the version.  *)
StartJobContract ==
  [][ /\ \A caller \in Callers :
           (~exists \/ job.fundiId # caller \/ job.status # "assigned")
             => startJobHandler(job, caller).next = Idle
      /\ \A r \in Requests :
           (req[r].op = "startJob" /\ SavedBy(r))
             => /\ req[r].saw = "assigned"
                /\ job.fundiId \in Fundis
                /\ job'.status = "in_progress"
                /\ job'.workProgress =
                     Append(job.workProgress,
                            [updateBy |-> job.fundiId, stage |-> "started"])
                /\ job' = [ job EXCEPT !.status = "in_progress",
                                       !.workProgress = job'.workProgress,
                                       !.version = job.version + 1 ] ]_vars

(* The assigned fundi has started the job: one entry, theirs.              *)
StartJobWitness ==
  /\ job.status = "in_progress"
  /\ job.workProgress = << [updateBy |-> job.fundiId, stage |-> "started"] >>
  /\ job.fundiId = "A"
  /\ \A r \in Requests : Free(r)

(* C35: a progress update is saved only for a caller who is the job's      *)
(* owner or its assigned fundi and only for a job the handler read as in   *)
(* progress or assigned; the save appends exactly one entry to             *)
(* workProgress and changes no other part of the job.                      *)
ProgressOnlyWhileActive ==
  [][ \A r \in Requests :
        (req[r].op = "addWorkProgress" /\ SavedBy(r))
          => /\ req[r].saw \in {"in_progress", "assigned"}
             /\ req[r].update.pushProgress[1].updateBy \in {job.customerId, job.fundiId}
             /\ Len(job'.workProgress) = Len(job.workProgress) + 1
             /\ job' = [ job EXCEPT !.workProgress = job'.workProgress,
                                    !.version = job.version + 1 ] ]_vars

(* The recipient-creation requests among the calls made to the provider.   *)
Attempts(calls) == SelectSeq(calls, LAMBDA c : c \in Formats)

(* For a valid contact the variants are tried in the order format1,        *)
(* format2, up to the first the provider accepts and no further; the       *)
(* number returned is the accepted variant of the contact; when both are   *)
(* rejected the failure carries the provider's reason.                     *)
VariantsInOrder(phoneNumber, cached, answers) ==
  LET recipient == createTransferRecipient(phoneNumber, cached, answers)
      number == <<"2", "5", "4">> \o Local
  IN  formatMpesaNumber(phoneNumber).valid
        => /\ Attempts(recipient.calls) =
                IF answers["format1"] = "accepted" THEN <<"format1">>
                ELSE <<"format1", "format2">>
           /\ recipient.success <=> \E f \in Formats : answers[f] = "accepted"
           /\ recipient.success
                => /\ answers[recipient.accepted] = "accepted"
                   /\ recipient.accepted =
                        Attempts(recipient.calls)[Len(Attempts(recipient.calls))]
                   /\ recipient.phoneNumber =
                        IF recipient.accepted = "format1" THEN number
                        ELSE <<"+">> \o number
           /\ ~recipient.success
                => recipient.error \in Reasons /\ recipient.error = answers["format2"]

(* C36 as stated: whenever a release is about to resolve the payout        *)
(* recipient, the variants are tried in order up to the first accepted,    *)
(* a rejection of both carries the provider's reason, and an invalid       *)
(* contact fails before any call to the provider.                          *)
InvalidContactCallsNothing ==
  \A r \in Requests :
    req[r].pc = "recipient"
      => \A phoneNumber \in Phones, cached \in BOOLEAN, answers \in ProviderAnswers :
           /\ VariantsInOrder(phoneNumber, cached, answers)
           /\ ~formatMpesaNumber(phoneNumber).valid
                => LET recipient == createTransferRecipient(phoneNumber, cached, answers)
                   IN  ~recipient.success /\ recipient.calls = <<>>

(* C36, amended: as above, but an invalid contact fails before any         *)
(* recipient-creation request; the bank-code lookup, made when the code is *)
(* not cached, is the only call to the provider that precedes the failure. *)
RecipientVariantsInOrder ==
  \A r \in Requests :
    req[r].pc = "recipient"
      => \A phoneNumber \in Phones, cached \in BOOLEAN, answers \in ProviderAnswers :
           /\ VariantsInOrder(phoneNumber, cached, answers)
           /\ ~formatMpesaNumber(phoneNumber).valid
                => LET recipient == createTransferRecipient(phoneNumber, cached, answers)
                   IN  /\ ~recipient.success
                       /\ recipient.error \notin Reasons
                       /\ Attempts(recipient.calls) = <<>>
                       /\ recipient.calls = getMpesaBankCode(cached)

(* A release is resolving the recipient, and for an invalid contact with   *)
(* no cached bank code the provider is asked for the bank list only.       *)
RecipientWitness ==
  /\ \E r \in Requests : req[r].pc = "recipient" /\ req[r].op = "releaseFunds"
  /\ \E phoneNumber \in Phones, answers \in ProviderAnswers :
       /\ ~formatMpesaNumber(phoneNumber).valid
       /\ createTransferRecipient(phoneNumber, FALSE, answers).calls = <<"bank">>
  /\ \E phoneNumber \in Phones, answers \in ProviderAnswers :
       createTransferRecipient(phoneNumber, TRUE, answers).accepted = "format2"

(* C37: with the requests run one after the other a job never holds more   *)
(* than one proposal: a submitProposal is saved only on a posted job       *)
(* without proposals and leaves it applied with one proposal, and a job    *)
(* that holds a proposal is not posted, so that every further              *)
(* submitProposal, by any fundi, is rejected.                              *)
SerialJobHoldsOneProposal ==
  [][ /\ Len(job.proposals) <= 1
      /\ Len(job.proposals) = 1
           => /\ job.status # "posted"
              /\ \A caller \in Fundis : submitProposalHandler(job, caller).next = Idle
      /\ \A r \in Requests :
           (req[r].op = "submitProposal" /\ SavedBy(r))
             => /\ job.status = "posted" /\ job.proposals = <<>>
                /\ job'.status = "applied"
                /\ Len(job'.proposals) = 1 ]_vars

(* The job holds A's proposal and B's submitProposal is rejected.          *)
SerialProposalWitness ==
  /\ exists /\ job.status = "applied"
  /\ Len(job.proposals) = 1 /\ job.proposals[1].fundiId = "A"
  /\ submitProposalHandler(job, "B").answer = "400"
  /\ \A r \in Requests : Free(r)

(* C38: a job that is assigned, in progress or completed has its fundi and *)
(* its agreed price set, and the fundi is the one of its accepted          *)
(* proposal.                                                               *)
AssignedHasAcceptedFundi ==
  (exists /\ job.status \in {"assigned", "in_progress", "completed"})
    => /\ job.fundiId # NoFundi
       /\ job.agreedPrice # 0
       /\ Accepted(job) # {}
       /\ \A i \in Accepted(job) : job.proposals[i].fundiId = job.fundiId

(* C39: when approveAndReleaseJob resolves the recipient and the provider  *)
(* accepts either variant of the number, storing the recipient code and    *)
(* the accepted number on the fundi does not fail, and the payout follows. *)
StoringRecipientNeverAborts ==
  \A r \in Requests :
    (req[r].op = "approveAndReleaseJob" /\ req[r].pc = "recipient")
      => \A recipient \in Recipients :
           recipient.success
             => ~storeRecipientFails(req[r].op, recipient.phoneNumber)

====
